---- MODULE Spec2Model ----
(***************************************************************************)
(* Model of app.py: the Streamlit dashboard that loads a sheet of cities   *)
(* with salary and cost-of-living figures, filters it by the selected      *)
(* countries, normalises it against a reference city and hands the result  *)
(* to a scatter plot.                                                      *)
(*                                                                         *)
(* A string is a sequence of one-character strings.  A spreadsheet cell is *)
(* a sequence of length at most one: << >> is a missing cell (NaN), <<v>>  *)
(* a cell holding v.  A DataFrame is the sequence of its rows.             *)
(***************************************************************************)
EXTENDS Integers, Sequences, FiniteSets, TLC

VARIABLES
    source,              \* rows of sheet "City_global" of the Excel file
    cache,               \* st.cache_data store of load_data: << >> or <<frame>>
    heap,                \* DataFrame objects: object id -> rows
    data,                \* object the script variable `data` is bound to
    filtered_data,       \* object the script variable `filtered_data` is bound to
    selected_countries,  \* value of the country multiselect
    city_options,        \* options of the reference-city selectbox
    reference_city,      \* << >> (not bound) or <<city>>
    returned,            \* << >> or <<frame>>: what calculate_differences returned
    plot,                \* << >> or <<figure>>: what st.plotly_chart rendered
    prompt,              \* the "select at least one country" message is shown
    error,               \* exception that ended the run, or "none"
    cycle                \* "start", "done" (a script run ended), "ready", "called"

vars == <<source, cache, heap, data, filtered_data, selected_countries,
          city_options, reference_city, returned, plot, prompt, error, cycle>>

(***************************************************************************)
(* Bounds of the model.                                                    *)
(***************************************************************************)
MaxRows == 3

(***************************************************************************)
(* Strings.                                                                *)
(***************************************************************************)
LowerCase == <<"a", "b", "n", "x", "y">>
UpperCase == <<"A", "B", "N", "X", "Y">>

IsLower(c) == \E i \in 1..Len(LowerCase) : LowerCase[i] = c
IsUpper(c) == \E i \in 1..Len(UpperCase) : UpperCase[i] = c
IsCased(c) == IsLower(c) \/ IsUpper(c)

upper(c) ==
    IF IsLower(c)
    THEN UpperCase[CHOOSE i \in 1..Len(LowerCase) : LowerCase[i] = c]
    ELSE c

lower(c) ==
    IF IsUpper(c)
    THEN LowerCase[CHOOSE i \in 1..Len(UpperCase) : UpperCase[i] = c]
    ELSE c

\* Code point of a character, the order sorted() compares strings by.
ord(c) ==
    CASE c = " " -> 32
      [] c = "," -> 44
      [] IsUpper(c) -> 64 + (CHOOSE i \in 1..Len(UpperCase) : UpperCase[i] = c)
      [] IsLower(c) -> 96 + (CHOOSE i \in 1..Len(LowerCase) : LowerCase[i] = c)

RECURSIVE lstrip(_)
lstrip(s) == IF s # << >> /\ Head(s) = " " THEN lstrip(Tail(s)) ELSE s

RECURSIVE rstrip(_)
rstrip(s) ==
    IF s # << >> /\ s[Len(s)] = " " THEN rstrip(SubSeq(s, 1, Len(s) - 1)) ELSE s

\* str.strip()
strip(s) == rstrip(lstrip(s))

\* str.title(): a cased character is upper-cased when it starts a word and
\* lower-cased when it follows a cased character.
title(s) ==
    [i \in 1..Len(s) |->
        IF i > 1 /\ IsCased(s[i - 1]) THEN lower(s[i]) ELSE upper(s[i])]

\* x.split(',')[-1]: the text after the last comma, all of x when it has none.
split_last(s) ==
    LET commas == {i \in 1..Len(s) : s[i] = ","}
    IN  IF commas = {} THEN s
        ELSE SubSeq(s, (CHOOSE i \in commas : \A j \in commas : j <= i) + 1, Len(s))

\* x.split(',')[0]: the text before the first comma, all of x when it has none.
split_first(s) ==
    LET commas == {i \in 1..Len(s) : s[i] = ","}
    IN  IF commas = {} THEN s
        ELSE SubSeq(s, 1, (CHOOSE i \in commas : \A j \in commas : i <= j) - 1)

\* astype(str) of a cell: a missing cell prints as "nan".
astype_str(cell) == IF cell = << >> THEN <<"n", "a", "n">> ELSE cell[1]

\* s < t in the order of Python strings.
RECURSIVE str_less(_, _)
str_less(s, t) ==
    IF t = << >> THEN FALSE
    ELSE IF s = << >> THEN TRUE
    ELSE IF Head(s) # Head(t) THEN ord(Head(s)) < ord(Head(t))
    ELSE str_less(Tail(s), Tail(t))

\* sorted(S) of a set of strings.
RECURSIVE sorted(_)
sorted(S) ==
    IF S = {} THEN << >>
    ELSE LET m == CHOOSE x \in S : \A y \in S : y = x \/ str_less(x, y)
         IN  <<m>> \o sorted(S \ {m})

\* The members of a sequence.
Range(seq) == {seq[i] : i \in 1..Len(seq)}

(***************************************************************************)
(* Numbers: the percentage columns.  A value is "absent" (the column does  *)
(* not exist), "nan", "inf", "-inf", or the fraction n/d in lowest terms.  *)
(***************************************************************************)
RECURSIVE gcd(_, _)
gcd(a, b) == IF b = 0 THEN a ELSE gcd(b, a % b)

abs(a) == IF a < 0 THEN 0 - a ELSE a

Absent == [k |-> "absent", n |-> 0, d |-> 1]
NaN    == [k |-> "nan", n |-> 0, d |-> 1]
PosInf == [k |-> "inf", n |-> 0, d |-> 1]
NegInf == [k |-> "-inf", n |-> 0, d |-> 1]

\* n/d for d # 0, in lowest terms with a positive denominator.
Fraction(n, d) ==
    LET g == gcd(abs(n), abs(d))
        sgn == IF d < 0 THEN 0 - 1 ELSE 1
    IN  [k |-> "num", n |-> sgn * (n \div g), d |-> sgn * (d \div g)]

\* ((x - ref) / ref) * 100 on float cells: a missing operand gives NaN, a
\* zero divisor gives NaN for 0/0 and a signed infinity otherwise.
pct_diff(x, ref) ==
    IF x = << >> \/ ref = << >> THEN NaN
    ELSE IF ref[1] = 0
         THEN IF x[1] = 0 THEN NaN
              ELSE IF x[1] > 0 THEN PosInf ELSE NegInf
         ELSE Fraction((x[1] - ref[1]) * 100, ref[1])

IsFinite(v) == v.k = "num"

(***************************************************************************)
(* The spreadsheet.                                                        *)
(***************************************************************************)
SheetRow(city, salary, col) == [City |-> city, Salary |-> salary, COL |-> col]

\* The rows a sheet of the model is made of: labels with zero, one and
\* several commas, a trailing comma, surrounding blanks, mixed case; two
\* labels that clean to the same City; missing cells; zero figures.
SheetRows ==
    { SheetRow(<< <<" ", "a", ",", "x">> >>, <<1>>, <<1>>),
      SheetRow(<< <<"A", ",", "x">> >>, <<2>>, <<2>>),
      SheetRow(<< <<"b", ",", "y">> >>, <<0>>, <<2>>),
      SheetRow(<< <<"b", ",", " ", "y">> >>, <<2>>, <<0>>),
      SheetRow(<< <<"a", ",">> >>, <<1>>, <<2>>),
      SheetRow(<< <<"b">> >>, <<2>>, <<1>>),
      SheetRow(<< <<"a", ",", "b", ",", "y">> >>, <<1>>, <<1>>),
      SheetRow(<< <<" ">> >>, <<1>>, <<1>>),
      SheetRow(<< >>, <<1>>, <<1>>),
      SheetRow(<< <<"a", ",", "x">> >>, << >>, <<1>>),
      SheetRow(<< <<"b", ",", "y">> >>, <<1>>, << >>) }

RECURSIVE SeqsUpTo(_, _)
SeqsUpTo(S, n) ==
    IF n = 0 THEN {<< >>}
    ELSE LET shorter == SeqsUpTo(S, n - 1)
         IN  shorter \cup {Append(s, r) : s \in {t \in shorter : Len(t) = n - 1}, r \in S}

Sheets == SeqsUpTo(SheetRows, MaxRows)

(***************************************************************************)
(* load_data                                                               *)
(***************************************************************************)
\* dropna with 'COL 2024' left out of the subset.
dropna_without_col(rows) ==
    SelectSeq(rows, LAMBDA r : r.City # << >> /\ r.Salary # << >>)

\* dropna(subset=['City', 'Salary', 'COL 2024'])
dropna(rows) ==
    SelectSeq(rows, LAMBDA r : r.City # << >> /\ r.Salary # << >> /\ r.COL # << >>)

\* The City, Country and City_Short columns of one retained row.
clean_row(r) ==
    LET city == title(strip(astype_str(r.City)))
    IN  [City       |-> city,
         Salary     |-> r.Salary,
         COL        |-> r.COL,
         Country    |-> strip(split_last(city)),
         City_Short |-> split_first(city),
         Sal_Diff   |-> Absent,
         Col_Diff   |-> Absent]

load_data(sheet) ==
    LET kept == dropna(sheet)
    IN  [i \in 1..Len(kept) |-> clean_row(kept[i])]

(***************************************************************************)
(* The script below load_data: widgets, filter, calculate_differences,     *)
(* create_scatter_plot.                                                    *)
(***************************************************************************)
Objects == {"df_data", "df_filtered"}

\* sorted(data['Country'].unique()): the options of the country multiselect.
country_options(df) == sorted({r.Country : r \in Range(df)})

\* A filter that shows every country while none is selected.
boolean_index_default_all(df, selected) ==
    IF selected = {} THEN df
    ELSE SelectSeq(df, LAMBDA r : r.Country \in selected)

\* data[data['Country'].isin(selected_countries)]: the rows of the result.
boolean_index(df, selected) ==
    SelectSeq(df, LAMBDA r : r.Country \in selected)

\* A filter that hands back the indexed frame itself when the mask keeps
\* every row.
boolean_index_view(obj, df, selected) ==
    IF \A i \in 1..Len(df) : df[i].Country \in selected THEN obj ELSE "df_filtered"

\* The object that result lives in: indexing with a boolean mask builds a new
\* frame, it never shares the indexed frame.
boolean_index_object(obj, df, selected) == "df_filtered"

\* An emptiness test that never holds.
df_empty_never(df) == FALSE

\* filtered_data.empty
df_empty(df) == Len(df) = 0

\* sorted(filtered_data['City'].unique())
sorted_unique_cities(df) == sorted({r.City : r \in Range(df)})

\* A selectbox that keeps the value it held, whatever the options are now.
selectbox_stale(options, widget_options, widget_value) ==
    IF options = << >> THEN << >>
    ELSE IF widget_value # << >> THEN widget_value
    ELSE <<options[1]>>

\* st.selectbox: None without options; the widget's value while the options
\* it was built with are unchanged; the first option for a new option list.
selectbox(options, widget_options, widget_value) ==
    IF options = << >> THEN << >>
    ELSE IF widget_value # << >> /\ widget_options = options THEN widget_value
    ELSE <<options[1]>>

\* A calculate_differences that takes a missing reference row for a row of
\* missing figures instead of raising.
calculate_differences_lenient(df, ref) ==
    LET matches == {i \in 1..Len(df) : <<df[i].City>> = ref}
        ref_data == IF matches = {} THEN [Salary |-> << >>, COL |-> << >>]
                    ELSE df[CHOOSE i \in matches : \A j \in matches : i <= j]
        out == [i \in 1..Len(df) |->
                   [df[i] EXCEPT
                       !.Sal_Diff = pct_diff(df[i].Salary, ref_data.Salary),
                       !.Col_Diff = pct_diff(df[i].COL, ref_data.COL)]]
    IN  [raised |-> "none", arg |-> out, ret |-> <<out>>]

\* calculate_differences(data, reference_city).  raised is the exception that
\* left the function, arg the rows of the frame passed in as the call leaves
\* them, ret the returned frame.  .iloc[0] of an empty selection raises
\* IndexError before any column is assigned; otherwise both columns are
\* assigned on the frame passed in, and that frame is returned.
calculate_differences(df, ref) ==
    LET matches == {i \in 1..Len(df) : <<df[i].City>> = ref}
    IN  IF matches = {}
        THEN [raised |-> "IndexError", arg |-> df, ret |-> << >>]
        ELSE LET ref_data == df[CHOOSE i \in matches : \A j \in matches : i <= j]
                 out == [i \in 1..Len(df) |->
                            [df[i] EXCEPT
                                !.Sal_Diff = pct_diff(df[i].Salary, ref_data.Salary),
                                !.Col_Diff = pct_diff(df[i].COL, ref_data.COL)]]
             IN  [raised |-> "none", arg |-> out, ret |-> <<out>>]

\* create_scatter_plot(data, reference_city): the figure plots every row of
\* the frame it is given and names the reference in its title.
create_scatter_plot(df, ref) == [points |-> df, reference |-> ref]

\* One run of the script from line 44 on, data being the frame load_data
\* returned, chosen the value of the multiselect, and the selectbox widget
\* holding widget_value over widget_options.
RunScript(loaded, chosen, widget_options, widget_value) ==
    LET fobj  == boolean_index_object("df_data", loaded, chosen)
        heap0 == [o \in Objects |->
                     IF o = "df_data" THEN loaded ELSE boolean_index(loaded, chosen)]
    IN  /\ data' = "df_data"
        /\ filtered_data' = fobj
        /\ selected_countries' = chosen
        /\ cycle' = "done"
        /\ IF ~df_empty(heap0[fobj])
           THEN LET opts == sorted_unique_cities(heap0[fobj])
                    ref  == selectbox(opts, widget_options, widget_value)
                    res  == calculate_differences(heap0[fobj], ref)
                IN  /\ city_options' = opts
                    /\ reference_city' = ref
                    /\ heap' = [heap0 EXCEPT ![fobj] = res.arg]
                    /\ returned' = res.ret
                    /\ error' = res.raised
                    /\ plot' = IF res.raised = "none"
                               THEN <<create_scatter_plot(res.ret[1], ref)>>
                               ELSE << >>
                    /\ prompt' = FALSE
           ELSE /\ city_options' = << >>
                /\ reference_city' = << >>
                /\ heap' = heap0
                /\ returned' = << >>
                /\ error' = "none"
                /\ plot' = << >>
                /\ prompt' = TRUE

Init ==
    /\ source \in Sheets
    /\ cache = << >>
    /\ heap = [o \in Objects |-> << >>]
    /\ data = "df_data"
    /\ filtered_data = "df_filtered"
    /\ selected_countries = {}
    /\ city_options = << >>
    /\ reference_city = << >>
    /\ returned = << >>
    /\ plot = << >>
    /\ prompt = FALSE
    /\ error = "none"
    /\ cycle = "start"

\* The first run: load_data misses the cache and reads the sheet; no country
\* is selected yet.
FirstRun ==
    /\ cycle = "start"
    /\ cache' = <<load_data(source)>>
    /\ RunScript(load_data(source), {}, << >>, << >>)
    /\ UNCHANGED source

\* The user changes the country multiselect; the script runs again on a copy
\* of the cached frame.
ChangeCountries ==
    /\ cycle = "done"
    /\ \E chosen \in SUBSET Range(country_options(cache[1])) :
          /\ chosen # selected_countries
          /\ RunScript(cache[1], chosen, city_options, reference_city)
    /\ UNCHANGED <<source, cache>>

\* The user picks another reference city among the options on display; the
\* script runs again.
ChangeReference ==
    /\ cycle = "done"
    /\ \E c \in Range(city_options) :
          /\ <<c>> # reference_city
          /\ RunScript(cache[1], selected_countries, city_options, <<c>>)
    /\ UNCHANGED <<source, cache>>

Next == FirstRun \/ ChangeCountries \/ ChangeReference

Spec == Init /\ [][Next]_vars

(***************************************************************************)
(* calculate_differences called on its own: any loaded frame, any string.  *)
(***************************************************************************)
\* The reference strings tried: every City the sheet rows clean to, and one
\* that is no City.
ReferenceStrings ==
    {clean_row(r).City : r \in {q \in SheetRows : q.City # << >>}}
        \cup {<<"N", "n">>}

CallInit ==
    /\ source \in Sheets
    /\ cache = << >>
    /\ heap = [o \in Objects |-> IF o = "df_filtered" THEN load_data(source) ELSE << >>]
    /\ data = "df_data"
    /\ filtered_data = "df_filtered"
    /\ selected_countries = {}
    /\ city_options = << >>
    /\ reference_city \in {<<s>> : s \in ReferenceStrings}
    /\ returned = << >>
    /\ plot = << >>
    /\ prompt = FALSE
    /\ error = "none"
    /\ cycle = "ready"

CallCalculateDifferences ==
    /\ cycle = "ready"
    /\ LET res == calculate_differences(heap[filtered_data], reference_city)
       IN  /\ heap' = [heap EXCEPT ![filtered_data] = res.arg]
           /\ returned' = res.ret
           /\ error' = res.raised
    /\ cycle' = "called"
    /\ UNCHANGED <<source, cache, data, filtered_data, selected_countries,
                   city_options, reference_city, plot, prompt>>

CallNext == CallCalculateDifferences

CallSpec == CallInit /\ [][CallNext]_vars

(***************************************************************************)
(* Properties.                                                             *)
(***************************************************************************)
Zero == [k |-> "num", n |-> 0, d |-> 1]

\* A row without its percentage columns.
Base(r) == [r EXCEPT !.Sal_Diff = Absent, !.Col_Diff = Absent]

\* The k-th smallest member of a set of indices.
KthIndex(I, k) == CHOOSE i \in I : Cardinality({j \in I : j <= i}) = k

Cities(df) == {r.City : r \in Range(df)}

HasPctColumns(df) ==
    \E r \in Range(df) : r.Sal_Diff # Absent \/ r.Col_Diff # Absent

\* C1: after calculate_differences returns for a reference city X, every row
\* whose City is X has Sal_Diff = 0 and Col_Diff = 0.
C1_ReferenceRowsAreZero ==
    (cycle = "called" /\ error = "none") =>
        \A r \in Range(heap[filtered_data]) :
            <<r.City>> = reference_city => (r.Sal_Diff = Zero /\ r.Col_Diff = Zero)

\* C2: the filtered frame holds exactly the rows of data whose Country is
\* selected, in the order they have in data; it is empty when no country is
\* selected.
C2_FilterKeepsSelectedInOrder ==
    (cycle = "done" /\ error = "none") =>
        LET d == heap[data]
            f == heap[filtered_data]
            I == {i \in 1..Len(d) : d[i].Country \in selected_countries}
        IN  /\ Len(f) = Cardinality(I)
            /\ \A k \in 1..Len(f) : Base(f[k]) = d[KthIndex(I, k)]
            /\ (selected_countries = {} => f = << >>)

C2_Witness ==
    /\ cycle = "done"
    /\ Len(heap[data]) = 3
    /\ Len(heap[filtered_data]) = 2
    /\ heap[data][2].Country \notin selected_countries

C4_NoUndefinedPercentagePlotted ==
    plot # << >> =>
        \A r \in Range(plot[1].points) : IsFinite(r.Sal_Diff) /\ IsFinite(r.Col_Diff)

\* C5: every row load_data returns with a non-empty City has a non-empty
\* Country.
C5_CountryNonEmpty ==
    cycle = "done" =>
        \A r \in Range(cache[1]) : r.City # << >> => r.Country # << >>

\* C6: calculate_differences leaves the frame passed to it as it was.
C6_ArgumentUnchanged ==
    cycle = "called" => heap[filtered_data] = load_data(source)

\* C7: load_data returns exactly the sheet rows holding City, Salary and
\* COL 2024, in the order of the sheet, so no returned row misses one of them.
C7_LoadKeepsCompleteRowsInOrder ==
    cycle = "done" =>
        LET d == cache[1]
            I == {i \in 1..Len(source) :
                    /\ source[i].City # << >>
                    /\ source[i].Salary # << >>
                    /\ source[i].COL # << >>}
        IN  /\ Len(d) = Cardinality(I)
            /\ \A k \in 1..Len(d) :
                  LET r == source[KthIndex(I, k)]
                  IN  /\ d[k].City = title(strip(r.City[1]))
                      /\ d[k].Salary = r.Salary /\ d[k].Salary # << >>
                      /\ d[k].COL = r.COL /\ d[k].COL # << >>

C7_Witness ==
    /\ cycle = "done"
    /\ Len(source) = 3
    /\ Len(cache[1]) = 2
    /\ source[2].COL = << >>

\* C8: whenever a run calls calculate_differences, the reference city it
\* passes is the City of a row of the current filtered frame, and the call
\* does not fail.
C8_ReferenceInFilteredSet ==
    (cycle = "done" /\ (reference_city # << >> \/ returned # << >> \/ error # "none")) =>
        /\ reference_city # << >>
        /\ reference_city[1] \in Cities(heap[filtered_data])
        /\ error = "none"

C8_Witness ==
    /\ cycle = "done"
    /\ returned # << >>
    /\ Len(city_options) >= 2
    /\ reference_city # <<city_options[1]>>
    /\ \E r \in Range(heap[data]) : r.City \notin Cities(heap[filtered_data])

\* C9: a run with no country selected or an empty filtered frame selects no
\* reference, computes nothing, renders no plot and shows the prompt; a plot
\* is rendered only from a non-empty filtered frame.
C9_EmptySelectionShortCircuits ==
    cycle = "done" =>
        /\ (selected_countries = {} \/ heap[filtered_data] = << >>) =>
              /\ reference_city = << >>
              /\ returned = << >>
              /\ error = "none"
              /\ plot = << >>
              /\ prompt
        /\ plot # << >> => (heap[filtered_data] # << >> /\ ~prompt)

C9_Witness ==
    /\ cycle = "done"
    /\ Len(heap[data]) >= 2
    /\ selected_countries = {}
    /\ prompt
    /\ plot = << >>

\* C10: after every run the frame load_data returned holds the rows it held
\* right after loading, without percentage columns.
C10_LoadedDataReadOnly ==
    cycle = "done" =>
        /\ cache = <<load_data(source)>>
        /\ heap[data] = cache[1]
        /\ ~HasPctColumns(heap[data])

C10_Witness ==
    /\ cycle = "done"
    /\ plot # << >>
    /\ Len(heap[data]) >= 2
    /\ Len(heap[filtered_data]) = Len(heap[data])
    /\ HasPctColumns(heap[filtered_data])

====
